---- MODULE Spec2Model ----
(***************************************************************************)
(* Model of the ngrok add-on of minikube: the credential gate              *)
(* (pkg/addons/addons_ngrok.go) and the interactive `addons configure      *)
(* ngrok` wizard (cmd/minikube/cmd/config/configure.go).                   *)
(*                                                                         *)
(* Strings the code takes apart (operator answers to the yes/no prompt,    *)
(* service selections) are sequences of one-character strings; strings the *)
(* code only passes on or compares with literals are TLA+ strings.         *)
(***************************************************************************)
EXTENDS Integers, Sequences, FiniteSets, TLC

VARIABLES
    namespaces,      \* cluster: set of <<profile, namespace>>
    secrets,         \* cluster: set of [profile, namespace, name, data, labels]
    ingresses,       \* cluster: set of [profile, namespace, name, domain, service, port, class]
    services,        \* cluster: profile -> sequence of [Namespace, Name, Ports]
    pc,              \* position of the wizard in addonsConfigureCmd.Run
    profile,         \* wizard local: profile := ClusterFlagValue()
    exists,          \* wizard local: exists
    replaceOrSet,    \* wizard local: replaceOrSet
    ngrokAuthToken,  \* wizard local
    ngrokAPIKey,     \* wizard local
    singleDomain,    \* wizard local
    domain,          \* wizard local / parameter of AddIngressToServices
    svcItems,        \* AddIngressToServices local: services.Items
    serviceString,   \* AddIngressToServices local: the text of the services box
    serviceChoice,   \* AddIngressToServices local
    atStart,         \* history: the cluster as the current run found it
    trace,           \* history: facade calls, prompts and messages of the current run
    requests,        \* history: arguments of the CreateIngress calls of the current run
    answers,         \* history: values the operator typed at free-text prompts of the current run
    reprompts,       \* number of times the current yes/no prompt was repeated
    policyIter,      \* iterations of the policy-module loop in the current run
    mapIter,         \* iterations of the mapping loop in the current run
    runs,            \* number of wizard runs started
    focus,           \* the part of a run in which the inputs of this behaviour vary
    gate,            \* history: the last gate / EnableOrDisable call and its result
    lastRun,         \* history: what the last finished run did, until the next run starts
    allowed,         \* history: profiles for which the gate has returned allow
    lastResponse     \* the line read by the pass of AskForYesNoConfirmation that has just run

cluster == <<namespaces, secrets, ingresses, services>>
locals  == <<profile, exists, replaceOrSet, ngrokAuthToken, ngrokAPIKey,
             singleDomain, domain, svcItems, serviceString, serviceChoice>>
history == <<atStart, trace, requests, answers, reprompts, policyIter, mapIter>>
vars    == <<namespaces, secrets, ingresses, services, pc, profile, exists,
             replaceOrSet, ngrokAuthToken, ngrokAPIKey, singleDomain, domain,
             svcItems, serviceString, serviceChoice, atStart, trace, requests, answers, reprompts,
             policyIter, mapIter, runs, focus, gate, lastRun, allowed, lastResponse>>

----------------------------------------------------------------------------
(* Bounds of the model *)

MaxRuns      == 2   \* wizard runs (in the behaviours of GateFocuses; one run in the others)
MaxReprompt  == 1   \* unrecognised answers per yes/no prompt
MaxPolicy    == 1   \* policy-module paths entered per run
MaxMap       == 2   \* service selections entered per run

----------------------------------------------------------------------------
(* Program literals *)

DefaultClusterName == "minikube"
NgrokNamespace     == "ngrok-ingress-controller"
NgrokSecretName    == "ngrok-ingress-controller-credentials"
IngressPrefix      == "ngrok-ingress-"
IngressClass       == "ngrok"
NgrokLabels        == [app |-> "ngrok", cloud |-> "ngrok", addon |-> "ngrok"]
ErrSkipThisAddon   == "ErrSkipThisAddon"
Nil                == "nil"
NoneStr            == <<"n", "o", "n", "e">>
posResponses       == << <<"y", "e", "s">>, <<"y">> >>
negResponses       == << <<"n", "o">>, <<"n">> >>

----------------------------------------------------------------------------
(* Inputs: profiles, operator answers, cluster contents *)

\* A behaviour explores one part of the wizard in depth.  In focus "setup" the
\* profiles and the credentials vary; in focus "failures" the namespace and
\* secret calls of the facade can fail; in focus "policy" the policy-module
\* paths vary; in focus "mapping" the selections and the domains; in focus
\* "ingressfail" ListServices and CreateIngress can fail; in focus "services"
\* the services of the cluster come and go during a run, one has two ports
\* and two have a colon in their name.
Focuses    == {"setup", "failures", "policy", "mapping", "ingressfail", "services"}
\* the behaviours in which gate calls and repeated wizard runs are interleaved:
\* the gate reads only the credential secret, which these behaviours vary
GateFocuses == {"setup", "failures"}
Profiles   == {"minikube", "p2"}
WizardProfiles == IF focus = "setup" THEN Profiles ELSE {"minikube"}
BoolVals   == {"true", "1", "false", "F", "yes", ""}
Tokens     == IF focus \in {"setup", "failures"} THEN {"a", "c"} ELSE {"a"}
ApiKeys    == IF focus = "setup" THEN {"b", "d"} ELSE {"b"}
Domains    == IF focus = "mapping" THEN {"foo.ngrok.app", "b.ngrok.app"} ELSE {"foo.ngrok.app"}
Responses  == { <<"y">>, <<"Y", "e", "s", "\n">>, <<"n", "o", "\n">>, <<"N">>, <<"o", "k">> }
PolicyPaths   == IF focus = "policy" THEN {"none", "policy.json", "missing.json"} ELSE {"none"}
ReadableFiles == {"policy.json"}
Selections == IF focus = "mapping"
              THEN { <<"d", ":", "w", ":", "8", "0">>,
                     <<"k", ":", "s", ":", "5", "3">>,
                     <<"d", ":", "w", ":", "9">>,
                     <<"d", ":", "w">>,
                     NoneStr }
              ELSE IF focus = "ingressfail"
              THEN { <<"d", ":", "w", ":", "8", "0">>,
                     <<"k", ":", "s", ":", "5", "3">>,
                     NoneStr }
              ELSE IF focus = "services"
              THEN { <<"d", ":", "w", ":", "8", "1">>,
                     <<"d", ":", "w", ":", "x", ":", "8", "0">>,
                     <<"d", ":", "w", ":", "8", ":", "8", "0">>,
                     NoneStr }
              ELSE { NoneStr }
\* the facade calls that can fail in this behaviour
CanFail(op) ==
    \/ focus = "failures" /\ op \in {"NamespaceExists", "CreateNamespace",
                                      "SecretExists", "CreateSecret"}
    \/ focus = "ingressfail" /\ op \in {"ListServices", "CreateIngress"}
PlainServices ==
    << [Namespace |-> <<"d">>, Name |-> <<"w">>, Ports |-> <<80>>],
       [Namespace |-> <<"k">>, Name |-> <<"s">>, Ports |-> <<53>>] >>
ColonServices ==
    << [Namespace |-> <<"d">>, Name |-> <<"w">>, Ports |-> <<80, 81>>],
       [Namespace |-> <<"d">>, Name |-> <<"w", ":", "x">>, Ports |-> <<80>>],
       [Namespace |-> <<"d">>, Name |-> <<"w", ":", "8">>, Ports |-> <<80>>] >>
InitServices == IF focus = "services" THEN ColonServices ELSE PlainServices

----------------------------------------------------------------------------
(* Library functions the code calls, computed as the libraries compute them *)

TrueStrings  == {"1", "t", "T", "TRUE", "true", "True"}
FalseStrings == {"0", "f", "F", "FALSE", "false", "False"}

\* strconv.ParseBool
ParseBool(str) ==
    IF str \in TrueStrings THEN [value |-> TRUE, err |-> FALSE]
    ELSE IF str \in FalseStrings THEN [value |-> FALSE, err |-> FALSE]
    ELSE [value |-> FALSE, err |-> TRUE]

LowerOf(c) ==
    CASE c = "Y" -> "y" [] c = "E" -> "e" [] c = "S" -> "s"
      [] c = "N" -> "n" [] c = "O" -> "o" [] c = "K" -> "k"
      [] OTHER -> c

\* strings.ToLower
ToLower(s) == [i \in 1..Len(s) |-> LowerOf(s[i])]

IsSpace(c) == c \in {" ", "\n", "\t", "\r"}

RECURSIVE TrimLeft(_)
TrimLeft(s) == IF s # <<>> /\ IsSpace(Head(s)) THEN TrimLeft(Tail(s)) ELSE s

RECURSIVE TrimRight(_)
TrimRight(s) ==
    IF s # <<>> /\ IsSpace(s[Len(s)]) THEN TrimRight(SubSeq(s, 1, Len(s) - 1)) ELSE s

\* strings.TrimSpace
TrimSpace(s) == TrimRight(TrimLeft(s))

DigitChars == <<"0", "1", "2", "3", "4", "5", "6", "7", "8", "9">>

RECURSIVE Digits(_)
Digits(n) == IF n < 10 THEN <<DigitChars[n + 1]>>
             ELSE Digits(n \div 10) \o <<DigitChars[(n % 10) + 1]>>

\* fmt.Sprintf("%d", n)
Itoa(n) == IF n < 0 THEN <<"-">> \o Digits(0 - n) ELSE Digits(n)

IsDigit(c) == \E i \in 1..10 : DigitChars[i] = c
DigitVal(c) == (CHOOSE i \in 1..10 : DigitChars[i] = c) - 1

RECURSIVE DigitsVal(_, _)
DigitsVal(s, acc) ==
    IF s = <<>> THEN acc ELSE DigitsVal(Tail(s), acc * 10 + DigitVal(Head(s)))

\* strconv.Atoi: optional sign, then at least one digit and nothing else
Atoi(s) ==
    LET body == IF s # <<>> /\ Head(s) \in {"+", "-"} THEN Tail(s) ELSE s
    IN  IF body = <<>> \/ \E i \in 1..Len(body) : ~IsDigit(body[i])
        THEN [value |-> 0, err |-> TRUE]
        ELSE [value |-> IF Head(s) = "-" THEN 0 - DigitsVal(body, 0)
                        ELSE DigitsVal(body, 0),
              err |-> FALSE]

\* int32(port): every integer TLC represents is in the range of int32, where
\* the conversion leaves the value as it is
ToInt32(n) == n

RECURSIVE Split(_, _)
\* strings.Split(s, sep) for a one-character separator
Split(s, sep) ==
    IF \A i \in 1..Len(s) : s[i] # sep THEN <<s>>
    ELSE LET k == CHOOSE i \in 1..Len(s) :
                      s[i] = sep /\ \A j \in 1..(i - 1) : s[j] # sep
         IN  <<SubSeq(s, 1, k - 1)>> \o Split(SubSeq(s, k + 1, Len(s)), sep)

\* posString returns the first index of element in slice, -1 if absent
posString(slice, element) ==
    IF \E i \in 1..Len(slice) : slice[i] = element
    THEN (CHOOSE i \in 1..Len(slice) :
              slice[i] = element /\ \A j \in 1..(i - 1) : slice[j] # element) - 1
    ELSE 0 - 1

containsString(slice, element) == posString(slice, element) # 0 - 1

\* fmt.Sprintf("%s:%s:%d", service.Namespace, service.Name, port.Port)
ServiceTriple(svc, port) == svc.Namespace \o <<":">> \o svc.Name \o <<":">> \o Itoa(port)

----------------------------------------------------------------------------
(* Trace events: a facade call with whether it succeeded and what it         *)
(* returned (the boolean of a check, the items of ListServices), a prompt     *)
(* with the answer where it is a yes/no or a choice, a message.               *)
Call(name, ok, ret) == [kind |-> "call", name |-> name, ok |-> ok, ret |-> ret]
Prompt(name, ret)   == [kind |-> "prompt", name |-> name, ok |-> TRUE, ret |-> ret]
Out(name)           == [kind |-> "out", name |-> name, ok |-> TRUE, ret |-> TRUE]
Answer(site, value) == [site |-> site, value |-> value]

----------------------------------------------------------------------------
(* Cluster Facade (pkg/minikube/service): every call either fails and      *)
(* leaves the cluster as it is, or succeeds.  Each operator is the set of  *)
(* outcomes one call can have in the current cluster state.                *)

SecretPresent(p, ns, name) ==
    \E s \in secrets : s.profile = p /\ s.namespace = ns /\ s.name = name

CheckNamespace(p, ns) ==
    {[exists |-> <<p, ns>> \in namespaces, err |-> FALSE]}
        \cup {[exists |-> b, err |-> TRUE] : b \in {c \in BOOLEAN : CanFail("NamespaceExists")}}

CreateNamespace(p, ns) ==
    {[err |-> FALSE, namespaces |-> namespaces \cup {<<p, ns>>}]}
        \cup {[err |-> TRUE, namespaces |-> namespaces] : x \in {c \in {1} : CanFail("CreateNamespace")}}

CheckSecretExists(p, ns, name) ==
    {[exists |-> SecretPresent(p, ns, name), err |-> FALSE]}
        \cup {[exists |-> b, err |-> TRUE] : b \in {c \in BOOLEAN : CanFail("SecretExists")}}

\* full replacement of the secret's data and labels; needs the namespace
CreateSecret(p, ns, name, data, labels) ==
    LET others == {s \in secrets : ~(s.profile = p /\ s.namespace = ns /\ s.name = name)}
        new    == [profile |-> p, namespace |-> ns, name |-> name,
                   data |-> data, labels |-> labels]
    IN  IF <<p, ns>> \notin namespaces
        THEN {[err |-> TRUE, secrets |-> secrets]}
        ELSE {[err |-> FALSE, secrets |-> others \cup {new}]}
                 \cup {[err |-> TRUE, secrets |-> secrets] : x \in {c \in {1} : CanFail("CreateSecret")}}

ListAllServices(p) ==
    {[items |-> services[p], err |-> FALSE]}
        \cup {[items |-> <<>>, err |-> TRUE] : x \in {c \in {1} : CanFail("ListServices")}}

CreateIngress(p, ns, name, dom, svc, port, class) ==
    LET others == {g \in ingresses : ~(g.profile = p /\ g.namespace = ns /\ g.name = name)}
        new    == [profile |-> p, namespace |-> ns, name |-> name, domain |-> dom,
                   service |-> svc, port |-> port, class |-> class]
    IN  {[err |-> FALSE, ingresses |-> others \cup {new}]}
            \cup {[err |-> TRUE, ingresses |-> ingresses] : x \in {c \in {1} : CanFail("CreateIngress")}}

----------------------------------------------------------------------------
(* Prompt driver (cmd/minikube/cmd/config/prompt.go) *)

\* AskForStaticValue, AskForStaticValueOptional: one validated free-text answer
AskForStaticValue(values) == values

\* AskForChoice: one of the offered options
AskForChoice(options) == options

\* faulty variant: an unrecognised line is taken as a no
AskForYesNoConfirmationDefaultsNo(response, pos, neg) ==
    LET r == ToLower(TrimSpace(response))
    IN  IF containsString(pos, r) THEN "yes" ELSE "no"

\* one pass of the loop of AskForYesNoConfirmation on the line the operator typed
AskForYesNoConfirmation(response, pos, neg) ==
    LET r == ToLower(TrimSpace(response))
    IN  IF containsString(pos, r) THEN "yes"
        ELSE IF containsString(neg, r) THEN "no"
        ELSE "again"

\* ReadFileContents
ReadFileContents(filePath) ==
    IF filePath \in ReadableFiles THEN [data |-> filePath, err |-> FALSE]
    ELSE [data |-> "", err |-> TRUE]

----------------------------------------------------------------------------
(* Credential gate (pkg/addons/addons_ngrok.go).  Each operator is the set *)
(* of results one call can return: the facade outcome it saw, the error it *)
(* returns, the message it prints and the number of facade calls it made.  *)

NoMsg == [text |-> "", tipProfileArg |-> <<>>]

NoGate == [fn |-> "none", profile |-> "", val |-> "", called |-> 0,
           checkErr |-> FALSE, checkExists |-> FALSE, present |-> FALSE,
           err |-> Nil, msg |-> NoMsg,
           before |-> [namespaces |-> {}, secrets |-> {}, ingresses |-> {}]]

GateResult(fn, p, val, called, r, err, msg) ==
    [fn |-> fn, profile |-> p, val |-> val, called |-> called,
     checkErr |-> r.err, checkExists |-> r.exists,
     present |-> SecretPresent(p, NgrokNamespace, NgrokSecretName),
     err |-> err, msg |-> msg,
     before |-> [namespaces |-> namespaces, secrets |-> secrets, ingresses |-> ingresses]]

NoCheck == [exists |-> FALSE, err |-> FALSE]

enableAddonNgrok(cfgName, val) ==
    { GateResult("enableOrDisableNgrok", cfgName, val, 1, r,
                 IF r.err THEN "check secret exists"
                 ELSE IF ~r.exists THEN "please run configure"
                 ELSE Nil,
                 NoMsg)
      : r \in CheckSecretExists(cfgName, "ngrok-ingress-controller",
                                "ngrok-ingress-controller-credentials") }

\* faulty variant: the callback runs the enable path whatever the value
enableOrDisableNgrokAlwaysChecks(cfgName, name, val) ==
    LET b == ParseBool(val)
    IN  IF b.err
        THEN {GateResult("enableOrDisableNgrok", cfgName, val, 0, NoCheck, "parsing bool", NoMsg)}
        ELSE enableAddonNgrok(cfgName, val)

enableOrDisableNgrok(cfgName, name, val) ==
    LET b == ParseBool(val)
    IN  IF b.err
        THEN {GateResult("enableOrDisableNgrok", cfgName, val, 0, NoCheck, "parsing bool", NoMsg)}
        ELSE IF b.value THEN enableAddonNgrok(cfgName, val)
        ELSE {GateResult("enableOrDisableNgrok", cfgName, val, 0, NoCheck, Nil, NoMsg)}

\* faulty variant: the validator looks for a secret of another name
ngrokValidationOtherSecret(cfgName) ==
    { GateResult("ngrokValidation", cfgName, "", 1, r,
                 IF r.err THEN "check secret exists"
                 ELSE IF ~r.exists THEN ErrSkipThisAddon
                 ELSE Nil,
                 IF ~r.err /\ ~r.exists
                 THEN [text |-> "Please run minikube addons configure ngrok",
                       tipProfileArg |-> IF cfgName # DefaultClusterName
                                         THEN <<" -p ", cfgName>> ELSE <<>>]
                 ELSE NoMsg)
      : r \in CheckSecretExists(cfgName, "ngrok-ingress-controller",
                                "ngrok-credentials") }

\* faulty variant: the validator returns a plain error instead of the skip signal
ngrokValidationPlainError(cfgName) ==
    { GateResult("ngrokValidation", cfgName, "", 1, r,
                 IF r.err THEN "check secret exists"
                 ELSE IF ~r.exists THEN "please run configure"
                 ELSE Nil,
                 IF ~r.err /\ ~r.exists
                 THEN [text |-> "Please run minikube addons configure ngrok",
                       tipProfileArg |-> IF cfgName # DefaultClusterName
                                         THEN <<" -p ", cfgName>> ELSE <<>>]
                 ELSE NoMsg)
      : r \in CheckSecretExists(cfgName, "ngrok-ingress-controller",
                                "ngrok-ingress-controller-credentials") }

ngrokValidation(cfgName) ==
    { GateResult("ngrokValidation", cfgName, "", 1, r,
                 IF r.err THEN "check secret exists"
                 ELSE IF ~r.exists THEN ErrSkipThisAddon
                 ELSE Nil,
                 IF ~r.err /\ ~r.exists
                 THEN [text |-> "Please run minikube addons configure ngrok",
                       tipProfileArg |-> IF cfgName # DefaultClusterName
                                         THEN <<" -p ", cfgName>> ELSE <<>>]
                 ELSE NoMsg)
      : r \in CheckSecretExists(cfgName, "ngrok-ingress-controller",
                                "ngrok-ingress-controller-credentials") }

Idle == pc = "idle"

NoRun == [profile |-> "", accepted |-> FALSE, allOk |-> FALSE, absentAtStart |-> FALSE]

\* the activation pipeline runs the validator of the add-on
CallNgrokValidation ==
    /\ Idle
    /\ focus \in GateFocuses
    /\ \E p \in Profiles : gate' \in ngrokValidation(p)
    /\ allowed' = IF gate'.err = Nil THEN allowed \cup {gate'.profile} ELSE allowed
    /\ UNCHANGED <<cluster, pc, locals, history, runs, focus, lastRun, lastResponse>>

\* faulty variant: deactivation removes the credential secret of the profile
CallEnableOrDisableCleansUp ==
    /\ Idle
    /\ focus \in GateFocuses
    /\ \E p \in Profiles, val \in BoolVals :
          /\ gate' \in enableOrDisableNgrok(p, "ngrok", val)
          /\ secrets' = IF gate'.called = 0
                        THEN {s \in secrets : ~(/\ s.profile = p
                                                /\ s.namespace = NgrokNamespace
                                                /\ s.name = NgrokSecretName)}
                        ELSE secrets
    /\ allowed' = IF gate'.err = Nil /\ gate'.called = 1
                  THEN allowed \cup {gate'.profile} ELSE allowed
    /\ UNCHANGED <<namespaces, ingresses, services, pc, locals, history, runs, focus, lastRun, lastResponse>>

\* the activation pipeline runs the callback of the add-on
CallEnableOrDisable ==
    /\ Idle
    /\ focus \in GateFocuses
    /\ \E p \in Profiles, val \in BoolVals : gate' \in enableOrDisableNgrok(p, "ngrok", val)
    /\ allowed' = IF gate'.err = Nil /\ gate'.called = 1
                  THEN allowed \cup {gate'.profile} ELSE allowed
    /\ UNCHANGED <<cluster, pc, locals, history, runs, focus, lastRun, lastResponse>>

\* another client of the cluster deletes or creates a service; what a run
\* sees of it is only what its next ListAllServices returns
ServicesChange ==
    /\ focus = "services"
    /\ pc \in {"idle", "ListServices", "AskServiceChoice", "AskLoopDomain", "CreateIngress"}
    /\ services' = [services EXCEPT !["minikube"] =
                        IF services["minikube"] = ColonServices
                        THEN Tail(ColonServices) ELSE ColonServices]
    /\ UNCHANGED <<namespaces, secrets, ingresses, pc, locals, history, runs, focus, gate, lastRun, allowed, lastResponse>>

----------------------------------------------------------------------------
(* Configuration wizard: case "ngrok" of addonsConfigureCmd.Run *)

Init ==
    /\ focus \in Focuses
    /\ namespaces = {<<p, "default">> : p \in Profiles}
    /\ secrets = {}
    /\ ingresses = {}
    /\ services = [p \in Profiles |-> InitServices]
    /\ pc = "idle"
    /\ profile = ""
    /\ exists = FALSE
    /\ replaceOrSet = "set"
    /\ ngrokAuthToken = ""
    /\ ngrokAPIKey = ""
    /\ singleDomain = FALSE
    /\ domain = ""
    /\ svcItems = <<>>
    /\ serviceString = <<>>
    /\ serviceChoice = <<>>
    /\ atStart = [namespaces |-> namespaces, secrets |-> secrets, ingresses |-> ingresses]
    /\ trace = <<>>
    /\ requests = <<>>
    /\ answers = <<>>
    /\ reprompts = 0
    /\ policyIter = 0
    /\ mapIter = 0
    /\ runs = 0
    /\ gate = NoGate
    /\ lastRun = NoRun
    /\ allowed = {}
    /\ lastResponse = <<>>

\* `minikube -p <profile> addons configure ngrok` is started
StartWizard ==
    /\ Idle
    /\ runs < (IF focus \in GateFocuses THEN MaxRuns ELSE 1)
    /\ runs' = runs + 1
    /\ \E p \in WizardProfiles : profile' = p
    /\ pc' = "CheckNamespace"
    /\ exists' = FALSE
    /\ replaceOrSet' = "set"
    /\ ngrokAuthToken' = ""
    /\ ngrokAPIKey' = ""
    /\ singleDomain' = FALSE
    /\ domain' = ""
    /\ svcItems' = <<>>
    /\ serviceString' = <<>>
    /\ serviceChoice' = <<>>
    /\ atStart' = [namespaces |-> namespaces, secrets |-> secrets, ingresses |-> ingresses]
    /\ trace' = <<>>
    /\ requests' = <<>>
    /\ answers' = <<>>
    /\ reprompts' = 0
    /\ policyIter' = 0
    /\ mapIter' = 0
    /\ gate' = NoGate
    /\ lastRun' = NoRun
    /\ UNCHANGED <<cluster, focus, allowed, lastResponse>>

\* faulty variant: the namespace is created without looking at exists
CheckNamespaceStepAlwaysCreates ==
    /\ pc = "CheckNamespace"
    /\ \E r \in CheckNamespace(profile, "ngrok-ingress-controller") :
        /\ exists' = r.exists
        /\ trace' = trace \o <<Call("NamespaceExists", ~r.err, r.exists)>>
                          \o (IF r.err THEN <<Out("Error checking namespace")>> ELSE <<>>)
        /\ pc' = "CreateNamespace"
    /\ UNCHANGED <<cluster, profile, replaceOrSet, ngrokAuthToken, ngrokAPIKey,
                   singleDomain, domain, svcItems, serviceString, serviceChoice,
                   atStart, requests, answers, reprompts, policyIter, mapIter, runs, focus, gate, lastRun, allowed>>
    /\ lastResponse' = <<>>

\* exists, err := service.CheckNamespace(profile, namespace); if !exists {
CheckNamespaceStep ==
    /\ pc = "CheckNamespace"
    /\ \E r \in CheckNamespace(profile, "ngrok-ingress-controller") :
        /\ exists' = r.exists
        /\ trace' = trace \o <<Call("NamespaceExists", ~r.err, r.exists)>>
                          \o (IF r.err THEN <<Out("Error checking namespace")>> ELSE <<>>)
        /\ pc' = IF ~r.exists THEN "CreateNamespace" ELSE "CheckSecret"
    /\ UNCHANGED <<cluster, profile, replaceOrSet, ngrokAuthToken, ngrokAPIKey,
                   singleDomain, domain, svcItems, serviceString, serviceChoice,
                   atStart, requests, answers, reprompts, policyIter, mapIter, runs, focus, gate, lastRun, allowed>>
    /\ lastResponse' = <<>>

\* faulty variant: the namespace is looked for again after it was created
CreateNamespaceStepRechecks ==
    /\ pc = "CreateNamespace"
    /\ \E r \in CreateNamespace(profile, "ngrok-ingress-controller") :
        /\ namespaces' = r.namespaces
        /\ trace' = trace \o <<Call("CreateNamespace", ~r.err, TRUE)>>
                          \o (IF r.err THEN <<Out("Error creating namespace")>> ELSE <<>>)
    /\ pc' = "CheckNamespace"
    /\ UNCHANGED <<secrets, ingresses, services, locals, atStart, requests, answers,
                   reprompts, policyIter, mapIter, runs, focus, gate, lastRun, allowed>>
    /\ lastResponse' = <<>>

\* err := service.CreateNamespace(profile, namespace)
CreateNamespaceStep ==
    /\ pc = "CreateNamespace"
    /\ \E r \in CreateNamespace(profile, "ngrok-ingress-controller") :
        /\ namespaces' = r.namespaces
        /\ trace' = trace \o <<Call("CreateNamespace", ~r.err, TRUE)>>
                          \o (IF r.err THEN <<Out("Error creating namespace")>> ELSE <<>>)
    /\ pc' = "CheckSecret"
    /\ UNCHANGED <<secrets, ingresses, services, locals, atStart, requests, answers,
                   reprompts, policyIter, mapIter, runs, focus, gate, lastRun, allowed>>
    /\ lastResponse' = <<>>

\* exists, err = service.CheckSecretExists(...); replaceOrSet
CheckSecretStep ==
    /\ pc = "CheckSecret"
    /\ \E r \in CheckSecretExists(profile, "ngrok-ingress-controller",
                                  "ngrok-ingress-controller-credentials") :
        /\ exists' = r.exists
        /\ replaceOrSet' = IF r.exists THEN "replace" ELSE "set"
        /\ trace' = trace \o <<Call("SecretExists", ~r.err, r.exists)>>
                          \o (IF r.err THEN <<Out("Error checking secret")>> ELSE <<>>)
    /\ pc' = "AskSetCredentials"
    /\ UNCHANGED <<cluster, profile, ngrokAuthToken, ngrokAPIKey,
                   singleDomain, domain, svcItems, serviceString, serviceChoice,
                   atStart, requests, answers, reprompts, policyIter, mapIter, runs, focus, gate, lastRun, allowed>>
    /\ lastResponse' = <<>>

\* a call of AskForYesNoConfirmation at position site: every line the
\* operator types is one pass of its loop
YesNo(site, msg, yesPc, noPc) ==
    /\ pc = site
    /\ \E response \in Responses :
        LET a == AskForYesNoConfirmation(response, posResponses, negResponses)
        IN  /\ lastResponse' = response
            /\ IF a = "again"
               THEN /\ reprompts < MaxReprompt
                    /\ reprompts' = reprompts + 1
                    /\ UNCHANGED <<pc, trace>>
               ELSE /\ reprompts' = 0
                    /\ trace' = Append(trace, Prompt(msg, a = "yes"))
                    /\ pc' = IF a = "yes" THEN yesPc ELSE noPc
    /\ UNCHANGED <<cluster, locals, atStart, requests, answers, policyIter, mapIter, runs, focus, gate, lastRun, allowed>>

\* faulty variant: the credentials are asked for when the operator declined
AskSetCredentialsSwapped ==
    YesNo("AskSetCredentials",
          IF replaceOrSet = "set" THEN "Would you like to set ngrok credentials?"
          ELSE "Would you like to replace ngrok credentials?",
          "AskConfigureIngress", "AskAuthToken")

\* setCredentials := AskForYesNoConfirmation(msg, ...); if setCredentials {
AskSetCredentials ==
    YesNo("AskSetCredentials",
          IF replaceOrSet = "set" THEN "Would you like to set ngrok credentials?"
          ELSE "Would you like to replace ngrok credentials?",
          "AskAuthToken", "AskConfigureIngress")

\* ngrokAuthToken := AskForStaticValue("-- Enter ngrok authtoken: ")
AskAuthToken ==
    /\ pc = "AskAuthToken"
    /\ \E v \in AskForStaticValue(Tokens) :
        /\ ngrokAuthToken' = v
        /\ answers' = Append(answers, Answer("authtoken", v))
    /\ trace' = Append(trace, Prompt("-- Enter ngrok authtoken: ", TRUE))
    /\ pc' = "AskAPIKey"
    /\ UNCHANGED <<cluster, profile, exists, replaceOrSet, ngrokAPIKey,
                   singleDomain, domain, svcItems, serviceString, serviceChoice,
                   atStart, requests, reprompts, policyIter, mapIter, runs, focus, gate, lastRun, allowed>>
    /\ lastResponse' = <<>>

\* ngrokAPIKey := AskForStaticValue("-- Enter ngrok apikey: ")
AskAPIKey ==
    /\ pc = "AskAPIKey"
    /\ \E v \in AskForStaticValue(ApiKeys) :
        /\ ngrokAPIKey' = v
        /\ answers' = Append(answers, Answer("apikey", v))
    /\ trace' = Append(trace, Prompt("-- Enter ngrok apikey: ", TRUE))
    /\ pc' = "CreateSecret"
    /\ UNCHANGED <<cluster, profile, exists, replaceOrSet, ngrokAuthToken,
                   singleDomain, domain, svcItems, serviceString, serviceChoice,
                   atStart, requests, reprompts, policyIter, mapIter, runs, focus, gate, lastRun, allowed>>
    /\ lastResponse' = <<>>

\* faulty variant: the two values are stored under each other's key
CreateSecretStepSwapped ==
    /\ pc = "CreateSecret"
    /\ \E r \in CreateSecret(profile, "ngrok-ingress-controller",
                             "ngrok-ingress-controller-credentials",
                             [AUTHTOKEN |-> ngrokAPIKey, API_KEY |-> ngrokAuthToken],
                             NgrokLabels) :
        /\ secrets' = r.secrets
        /\ trace' = trace \o <<Call("CreateSecret", ~r.err, TRUE)>>
                          \o (IF r.err THEN <<Out("ERROR creating secret")>> ELSE <<>>)
    /\ pc' = "AskConfigureIngress"
    /\ UNCHANGED <<namespaces, ingresses, services, locals, atStart, requests, answers,
                   reprompts, policyIter, mapIter, runs, focus, gate, lastRun, allowed>>
    /\ lastResponse' = <<>>

\* faulty variant: the secret is written under another name than the gate reads
CreateSecretStepOtherName ==
    /\ pc = "CreateSecret"
    /\ \E r \in CreateSecret(profile, "ngrok-ingress-controller",
                             "ngrok-credentials",
                             [AUTHTOKEN |-> ngrokAuthToken, API_KEY |-> ngrokAPIKey],
                             NgrokLabels) :
        /\ secrets' = r.secrets
        /\ trace' = trace \o <<Call("CreateSecret", ~r.err, TRUE)>>
                          \o (IF r.err THEN <<Out("ERROR creating secret")>> ELSE <<>>)
    /\ pc' = "AskConfigureIngress"
    /\ UNCHANGED <<namespaces, ingresses, services, locals, atStart, requests, answers,
                   reprompts, policyIter, mapIter, runs, focus, gate, lastRun, allowed>>
    /\ lastResponse' = <<>>

\* err := service.CreateSecret(profile, namespace, "ngrok-ingress-controller-credentials", ...)
CreateSecretStep ==
    /\ pc = "CreateSecret"
    /\ \E r \in CreateSecret(profile, "ngrok-ingress-controller",
                             "ngrok-ingress-controller-credentials",
                             [AUTHTOKEN |-> ngrokAuthToken, API_KEY |-> ngrokAPIKey],
                             NgrokLabels) :
        /\ secrets' = r.secrets
        /\ trace' = trace \o <<Call("CreateSecret", ~r.err, TRUE)>>
                          \o (IF r.err THEN <<Out("ERROR creating secret")>> ELSE <<>>)
    /\ pc' = "AskConfigureIngress"
    /\ UNCHANGED <<namespaces, ingresses, services, locals, atStart, requests, answers,
                   reprompts, policyIter, mapIter, runs, focus, gate, lastRun, allowed>>
    /\ lastResponse' = <<>>

\* faulty variant: the break after a declined prompt is missing
AskConfigureIngressNoBreak ==
    YesNo("AskConfigureIngress",
          "Would you like to configure ingress for existing services in your minikube cluster?",
          "AskDomainChoice", "AskDomainChoice")

\* configureIngress := AskForYesNoConfirmation(...); if !configureIngress { break }
AskConfigureIngress ==
    YesNo("AskConfigureIngress",
          "Would you like to configure ingress for existing services in your minikube cluster?",
          "AskDomainChoice", "Configured")

\* domainChoice := AskForSingleOrMultipleDomainChoice(); singleDomain
AskDomainChoice ==
    /\ pc = "AskDomainChoice"
    /\ \E domainChoice \in AskForChoice({"single", "multiple"}) :
        /\ singleDomain' = (domainChoice = "single")
        /\ pc' = IF domainChoice = "single" THEN "AskSingleDomain" ELSE "AskPolicyModule"
    /\ trace' = Append(trace, Prompt("single or multiple domain?", singleDomain'))
    /\ UNCHANGED <<cluster, profile, exists, replaceOrSet, ngrokAuthToken, ngrokAPIKey,
                   domain, svcItems, serviceString, serviceChoice,
                   atStart, requests, answers, reprompts, policyIter, mapIter, runs, focus, gate, lastRun, allowed>>
    /\ lastResponse' = <<>>

\* if singleDomain { domain = AskForStaticValue("What domain would you like to use?") }
AskSingleDomain ==
    /\ pc = "AskSingleDomain"
    /\ \E v \in AskForStaticValue(Domains) :
        /\ domain' = v
        /\ answers' = Append(answers, Answer("domain", v))
    /\ trace' = Append(trace, Prompt("What domain would you like to use?", TRUE))
    /\ pc' = "AskPolicyModule"
    /\ UNCHANGED <<cluster, profile, exists, replaceOrSet, ngrokAuthToken, ngrokAPIKey,
                   singleDomain, svcItems, serviceString, serviceChoice,
                   atStart, requests, reprompts, policyIter, mapIter, runs, focus, gate, lastRun, allowed>>
    /\ lastResponse' = <<>>

\* configurePolicyModule := AskForYesNoConfirmation(...)
AskPolicyModule ==
    YesNo("AskPolicyModule",
          "Would you like to create a policy module?",
          "PolicyLoop", "AskCreateIngress")

\* faulty variant: a file that cannot be read ends the loop
LoadAndCreatePolicyModulesBreaksOnError ==
    /\ pc = "PolicyLoop"
    /\ \E policyModulePath \in AskForStaticValue(PolicyPaths) :
        /\ answers' = Append(answers, Answer("policy", policyModulePath))
        /\ IF policyModulePath = "none"
           THEN /\ pc' = "AskCreateIngress"
                /\ trace' = Append(trace, Prompt("Give path to policy module file", TRUE))
                /\ UNCHANGED policyIter
           ELSE /\ policyIter < MaxPolicy
                /\ policyIter' = policyIter + 1
                /\ trace' = trace \o <<Prompt("Give path to policy module file", TRUE)>>
                                  \o (IF ReadFileContents(policyModulePath).err
                                      THEN <<Out("Error reading module set file")>> ELSE <<>>)
                /\ pc' = IF ReadFileContents(policyModulePath).err
                         THEN "AskCreateIngress" ELSE pc
    /\ UNCHANGED <<cluster, locals, atStart, requests, reprompts, mapIter, runs, focus, gate, lastRun, allowed>>
    /\ lastResponse' = <<>>

\* one iteration of the loop of LoadAndCreatePolicyModules
LoadAndCreatePolicyModules ==
    /\ pc = "PolicyLoop"
    /\ \E policyModulePath \in AskForStaticValue(PolicyPaths) :
        /\ answers' = Append(answers, Answer("policy", policyModulePath))
        /\ IF policyModulePath = "none"
           THEN /\ pc' = "AskCreateIngress"
                /\ trace' = Append(trace, Prompt("Give path to policy module file", TRUE))
                /\ UNCHANGED policyIter
           ELSE /\ policyIter < MaxPolicy
                /\ policyIter' = policyIter + 1
                /\ trace' = trace \o <<Prompt("Give path to policy module file", TRUE)>>
                                  \o (IF ReadFileContents(policyModulePath).err
                                      THEN <<Out("Error reading module set file")>> ELSE <<>>)
                /\ UNCHANGED pc
    /\ UNCHANGED <<cluster, locals, atStart, requests, reprompts, mapIter, runs, focus, gate, lastRun, allowed>>
    /\ lastResponse' = <<>>

\* faulty variant: the services are mapped whatever the operator answered
AskCreateIngressIgnoresAnswer ==
    YesNo("AskCreateIngress",
          "Would you like to create ingress to existing services?",
          "ListServices", "ListServices")

\* configureIngressToServices := AskForYesNoConfirmation(...)
AskCreateIngress ==
    YesNo("AskCreateIngress",
          "Would you like to create ingress to existing services?",
          "ListServices", "Congrats")

RECURSIVE PortLines(_, _)
PortLines(svc, ports) ==
    IF ports = <<>> THEN <<>>
    ELSE ServiceTriple(svc, Head(ports)) \o <<"\n">> \o PortLines(svc, Tail(ports))

RECURSIVE ServiceLines(_)
\* serviceString += fmt.Sprintf("%s:%s:%d\n", ...) over items and ports
ServiceLines(items) ==
    IF items = <<>> THEN <<>>
    ELSE PortLines(Head(items), Head(items).Ports) \o ServiceLines(Tail(items))

\* faulty variant: the lookup compares namespace and name and not the port
FoundIgnoringPort(items, choice) ==
    \E i \in 1..Len(items) :
        LET pre == items[i].Namespace \o <<":">> \o items[i].Name \o <<":">>
        IN  Len(choice) > Len(pre) /\ SubSeq(choice, 1, Len(pre)) = pre

\* found: some port of some listed service formats to the choice
Found(items, choice) ==
    \E i \in 1..Len(items) : \E j \in 1..Len(items[i].Ports) :
        ServiceTriple(items[i], items[i].Ports[j]) = choice

\* AddIngressToServices up to the first prompt: list the services, show them
ListServicesStep ==
    /\ pc = "ListServices"
    /\ \E r \in ListAllServices(profile) :
        IF r.err
        THEN /\ trace' = trace \o <<Call("ListServices", FALSE, <<>>), Out("Error listing services")>>
             /\ pc' = "Congrats"
             /\ UNCHANGED <<svcItems, serviceString>>
        ELSE /\ svcItems' = r.items
             /\ serviceString' = ServiceLines(r.items)
             /\ trace' = trace \o <<Call("ListServices", TRUE, r.items), Out("Services box")>>
             /\ pc' = "AskServiceChoice"
    /\ UNCHANGED <<cluster, profile, exists, replaceOrSet, ngrokAuthToken, ngrokAPIKey,
                   singleDomain, domain, serviceChoice,
                   atStart, requests, answers, reprompts, policyIter, mapIter, runs, focus, gate, lastRun, allowed>>
    /\ lastResponse' = <<>>

\* faulty variant: every selection is looked up in the services of the moment
AskServiceChoiceRelists ==
    /\ pc = "AskServiceChoice"
    /\ \E choice \in AskForStaticValue(Selections) :
        /\ serviceChoice' = choice
        /\ IF choice = NoneStr
           THEN /\ pc' = "Congrats"
                /\ trace' = Append(trace, Prompt("What service would you like to add ingress for?", TRUE))
                /\ UNCHANGED mapIter
           ELSE /\ mapIter < MaxMap
                /\ mapIter' = mapIter + 1
                /\ IF ~Found(services[profile], choice)
                   THEN /\ trace' = trace \o <<Prompt("What service would you like to add ingress for?", TRUE),
                                                Out("Service not found")>>
                        /\ UNCHANGED pc
                   ELSE /\ trace' = Append(trace, Prompt("What service would you like to add ingress for?", TRUE))
                        /\ pc' = IF ~singleDomain THEN "AskLoopDomain" ELSE "CreateIngress"
    /\ UNCHANGED <<cluster, profile, exists, replaceOrSet, ngrokAuthToken, ngrokAPIKey,
                   singleDomain, domain, svcItems, serviceString,
                   atStart, requests, answers, reprompts, policyIter, runs, focus, gate, lastRun, allowed>>
    /\ lastResponse' = <<>>

\* faulty variant: the loop looks for another sentinel than "none"
AskServiceChoiceOtherSentinel ==
    /\ pc = "AskServiceChoice"
    /\ \E choice \in AskForStaticValue(Selections) :
        /\ serviceChoice' = choice
        /\ IF choice = <<"e", "x", "i", "t">>
           THEN /\ pc' = "Congrats"
                /\ trace' = Append(trace, Prompt("What service would you like to add ingress for?", TRUE))
                /\ UNCHANGED mapIter
           ELSE /\ mapIter < MaxMap
                /\ mapIter' = mapIter + 1
                /\ IF ~Found(svcItems, choice)
                   THEN /\ trace' = trace \o <<Prompt("What service would you like to add ingress for?", TRUE),
                                                Out("Service not found")>>
                        /\ UNCHANGED pc
                   ELSE /\ trace' = Append(trace, Prompt("What service would you like to add ingress for?", TRUE))
                        /\ pc' = IF ~singleDomain THEN "AskLoopDomain" ELSE "CreateIngress"
    /\ UNCHANGED <<cluster, profile, exists, replaceOrSet, ngrokAuthToken, ngrokAPIKey,
                   singleDomain, domain, svcItems, serviceString,
                   atStart, requests, answers, reprompts, policyIter, runs, focus, gate, lastRun, allowed>>
    /\ lastResponse' = <<>>

\* faulty variant: the domain is asked for in the loop under the single strategy
AskServiceChoiceAsksInSingle ==
    /\ pc = "AskServiceChoice"
    /\ \E choice \in AskForStaticValue(Selections) :
        /\ serviceChoice' = choice
        /\ IF choice = NoneStr
           THEN /\ pc' = "Congrats"
                /\ trace' = Append(trace, Prompt("What service would you like to add ingress for?", TRUE))
                /\ UNCHANGED mapIter
           ELSE /\ mapIter < MaxMap
                /\ mapIter' = mapIter + 1
                /\ IF ~Found(svcItems, choice)
                   THEN /\ trace' = trace \o <<Prompt("What service would you like to add ingress for?", TRUE),
                                                Out("Service not found")>>
                        /\ UNCHANGED pc
                   ELSE /\ trace' = Append(trace, Prompt("What service would you like to add ingress for?", TRUE))
                        /\ pc' = IF singleDomain THEN "AskLoopDomain" ELSE "CreateIngress"
    /\ UNCHANGED <<cluster, profile, exists, replaceOrSet, ngrokAuthToken, ngrokAPIKey,
                   singleDomain, domain, svcItems, serviceString,
                   atStart, requests, answers, reprompts, policyIter, runs, focus, gate, lastRun, allowed>>
    /\ lastResponse' = <<>>

\* serviceChoice := AskForStaticValue(...); "none" ends the loop; look it up
AskServiceChoice ==
    /\ pc = "AskServiceChoice"
    /\ \E choice \in AskForStaticValue(Selections) :
        /\ serviceChoice' = choice
        /\ IF choice = NoneStr
           THEN /\ pc' = "Congrats"
                /\ trace' = Append(trace, Prompt("What service would you like to add ingress for?", TRUE))
                /\ UNCHANGED mapIter
           ELSE /\ mapIter < MaxMap
                /\ mapIter' = mapIter + 1
                /\ IF ~Found(svcItems, choice)
                   THEN /\ trace' = trace \o <<Prompt("What service would you like to add ingress for?", TRUE),
                                                Out("Service not found")>>
                        /\ UNCHANGED pc
                   ELSE /\ trace' = Append(trace, Prompt("What service would you like to add ingress for?", TRUE))
                        /\ pc' = IF ~singleDomain THEN "AskLoopDomain" ELSE "CreateIngress"
    /\ UNCHANGED <<cluster, profile, exists, replaceOrSet, ngrokAuthToken, ngrokAPIKey,
                   singleDomain, domain, svcItems, serviceString,
                   atStart, requests, answers, reprompts, policyIter, runs, focus, gate, lastRun, allowed>>
    /\ lastResponse' = <<>>

\* if !singleDomain { domain = AskForStaticValue("What domain would you like to use?") }
AskLoopDomain ==
    /\ pc = "AskLoopDomain"
    /\ \E v \in AskForStaticValue(Domains) :
        /\ domain' = v
        /\ answers' = Append(answers, Answer("loopDomain", v))
    /\ trace' = Append(trace, Prompt("What domain would you like to use? (loop)", TRUE))
    /\ pc' = "CreateIngress"
    /\ UNCHANGED <<cluster, profile, exists, replaceOrSet, ngrokAuthToken, ngrokAPIKey,
                   singleDomain, svcItems, serviceString, serviceChoice,
                   atStart, requests, reprompts, policyIter, mapIter, runs, focus, gate, lastRun, allowed>>
    /\ lastResponse' = <<>>

\* "ngrok-ingress-"+serviceName
IngressName(serviceName) == <<IngressPrefix>> \o serviceName

\* faulty variant: a request for an ingress the run already asked for is dropped
CreateIngressStepDedup ==
    /\ pc = "CreateIngress"
    /\ LET serviceParts == Split(serviceChoice, ":")
       IN  IF Len(serviceParts) < 3
           THEN /\ pc' = "panic"
                /\ UNCHANGED <<ingresses, trace, requests>>
           ELSE LET namespace   == serviceParts[1]
                    serviceName == serviceParts[2]
                    port        == Atoi(serviceParts[3])
                IN  IF port.err
                    THEN /\ trace' = Append(trace, Out("Error converting port to int"))
                         /\ pc' = "Congrats"
                         /\ UNCHANGED <<ingresses, requests>>
                    ELSE IF \E q \in 1..Len(requests) :
                               /\ requests[q].namespace = namespace
                               /\ requests[q].name = IngressName(serviceName)
                    THEN /\ pc' = "AskServiceChoice"
                         /\ UNCHANGED <<ingresses, trace, requests>>
                    ELSE \E r \in CreateIngress(profile, namespace, IngressName(serviceName),
                                                domain, serviceName, ToInt32(port.value), "ngrok") :
                            /\ ingresses' = r.ingresses
                            /\ requests' = Append(requests,
                                   [profile |-> profile, namespace |-> namespace,
                                    name |-> IngressName(serviceName), domain |-> domain,
                                    service |-> serviceName, port |-> ToInt32(port.value),
                                    class |-> "ngrok"])
                            /\ trace' = trace \o <<Call("CreateIngress", ~r.err, TRUE)>>
                                              \o (IF r.err THEN <<Out("Error creating ingress")>>
                                                  ELSE <<>>)
                            /\ pc' = "AskServiceChoice"
    /\ UNCHANGED <<namespaces, secrets, services, locals, atStart, answers,
                   reprompts, policyIter, mapIter, runs, focus, gate, lastRun, allowed>>
    /\ lastResponse' = <<>>

\* faulty variant: a failed CreateIngress ends the loop
CreateIngressStepReturnsOnFailure ==
    /\ pc = "CreateIngress"
    /\ LET serviceParts == Split(serviceChoice, ":")
       IN  IF Len(serviceParts) < 3
           THEN /\ pc' = "panic"
                /\ UNCHANGED <<ingresses, trace, requests>>
           ELSE LET namespace   == serviceParts[1]
                    serviceName == serviceParts[2]
                    port        == Atoi(serviceParts[3])
                IN  IF port.err
                    THEN /\ trace' = Append(trace, Out("Error converting port to int"))
                         /\ pc' = "Congrats"
                         /\ UNCHANGED <<ingresses, requests>>
                    ELSE \E r \in CreateIngress(profile, namespace, IngressName(serviceName),
                                                domain, serviceName, ToInt32(port.value), "ngrok") :
                            /\ ingresses' = r.ingresses
                            /\ requests' = Append(requests,
                                   [profile |-> profile, namespace |-> namespace,
                                    name |-> IngressName(serviceName), domain |-> domain,
                                    service |-> serviceName, port |-> ToInt32(port.value),
                                    class |-> "ngrok"])
                            /\ trace' = trace \o <<Call("CreateIngress", ~r.err, TRUE)>>
                                              \o (IF r.err THEN <<Out("Error creating ingress")>>
                                                  ELSE <<>>)
                            /\ pc' = IF r.err THEN "Congrats" ELSE "AskServiceChoice"
    /\ UNCHANGED <<namespaces, secrets, services, locals, atStart, answers,
                   reprompts, policyIter, mapIter, runs, focus, gate, lastRun, allowed>>
    /\ lastResponse' = <<>>

\* serviceParts := strings.Split(...); strconv.Atoi; service.CreateIngress(...)
CreateIngressStep ==
    /\ pc = "CreateIngress"
    /\ LET serviceParts == Split(serviceChoice, ":")
       IN  IF Len(serviceParts) < 3
           THEN /\ pc' = "panic"
                /\ UNCHANGED <<ingresses, trace, requests>>
           ELSE LET namespace   == serviceParts[1]
                    serviceName == serviceParts[2]
                    port        == Atoi(serviceParts[3])
                IN  IF port.err
                    THEN /\ trace' = Append(trace, Out("Error converting port to int"))
                         /\ pc' = "Congrats"
                         /\ UNCHANGED <<ingresses, requests>>
                    ELSE \E r \in CreateIngress(profile, namespace, IngressName(serviceName),
                                                domain, serviceName, ToInt32(port.value), "ngrok") :
                            /\ ingresses' = r.ingresses
                            /\ requests' = Append(requests,
                                   [profile |-> profile, namespace |-> namespace,
                                    name |-> IngressName(serviceName), domain |-> domain,
                                    service |-> serviceName, port |-> ToInt32(port.value),
                                    class |-> "ngrok"])
                            /\ trace' = trace \o <<Call("CreateIngress", ~r.err, TRUE)>>
                                              \o (IF r.err THEN <<Out("Error creating ingress")>>
                                                  ELSE <<>>)
                            /\ pc' = "AskServiceChoice"
    /\ UNCHANGED <<namespaces, secrets, services, locals, atStart, answers,
                   reprompts, policyIter, mapIter, runs, focus, gate, lastRun, allowed>>
    /\ lastResponse' = <<>>

\* out.SuccessT("Congrats, you have configured ingress with ngrok in your minikube cluster.")
Congrats ==
    /\ pc = "Congrats"
    /\ trace' = Append(trace, Out("Congrats, you have configured ingress with ngrok"))
    /\ pc' = "Configured"
    /\ UNCHANGED <<cluster, locals, atStart, requests, answers, reprompts, policyIter, mapIter, runs, focus, gate, lastRun, allowed>>
    /\ lastResponse' = <<>>

\* out.SuccessT("{{.name}} was successfully configured", ...)
Configured ==
    /\ pc = "Configured"
    /\ trace' = Append(trace, Out("ngrok was successfully configured"))
    /\ pc' = "done"
    /\ UNCHANGED <<cluster, locals, atStart, requests, answers, reprompts, policyIter, mapIter, runs, focus, gate, lastRun, allowed>>
    /\ lastResponse' = <<>>

\* the command returns: the locals of the run are gone
Return ==
    /\ pc = "done"
    /\ pc' = "idle"
    /\ profile' = ""
    /\ exists' = FALSE
    /\ replaceOrSet' = "set"
    /\ ngrokAuthToken' = ""
    /\ ngrokAPIKey' = ""
    /\ singleDomain' = FALSE
    /\ domain' = ""
    /\ svcItems' = <<>>
    /\ serviceString' = <<>>
    /\ serviceChoice' = <<>>
    /\ atStart' = [namespaces |-> namespaces, secrets |-> secrets, ingresses |-> ingresses]
    /\ trace' = <<>>
    /\ requests' = <<>>
    /\ answers' = <<>>
    /\ lastRun' = [profile |-> profile,
                   accepted |-> \E i \in 1..Len(trace) :
                                   /\ trace[i].kind = "prompt"
                                   /\ trace[i].name \in {"Would you like to set ngrok credentials?",
                                                          "Would you like to replace ngrok credentials?"}
                                   /\ trace[i].ret,
                   allOk |-> \A i \in 1..Len(trace) : trace[i].ok,
                   absentAtStart |-> \A x \in atStart.secrets :
                                        ~(/\ x.profile = profile
                                          /\ x.namespace = NgrokNamespace
                                          /\ x.name = NgrokSecretName)]
    /\ UNCHANGED <<cluster, reprompts, policyIter, mapIter, runs, focus, gate, allowed>>
    /\ lastResponse' = <<>>

Next ==
    \/ CallNgrokValidation
    \/ CallEnableOrDisable
    \/ ServicesChange
    \/ StartWizard
    \/ CheckNamespaceStep
    \/ CreateNamespaceStep
    \/ CheckSecretStep
    \/ AskSetCredentials
    \/ AskAuthToken
    \/ AskAPIKey
    \/ CreateSecretStep
    \/ AskConfigureIngress
    \/ AskDomainChoice
    \/ AskSingleDomain
    \/ AskPolicyModule
    \/ LoadAndCreatePolicyModules
    \/ AskCreateIngress
    \/ ListServicesStep
    \/ AskServiceChoice
    \/ AskLoopDomain
    \/ CreateIngressStep
    \/ Congrats
    \/ Configured
    \/ Return

Spec == Init /\ [][Next]_vars

\* the steps of a started wizard run: the command is one sequential process
\* that goes on whenever it is not waiting for the operator, and the
\* operator goes on typing
WizardStep ==
    \/ CheckNamespaceStep
    \/ CreateNamespaceStep
    \/ CheckSecretStep
    \/ AskSetCredentials
    \/ AskAuthToken
    \/ AskAPIKey
    \/ CreateSecretStep
    \/ AskConfigureIngress
    \/ AskDomainChoice
    \/ AskSingleDomain
    \/ AskPolicyModule
    \/ LoadAndCreatePolicyModules
    \/ AskCreateIngress
    \/ ListServicesStep
    \/ AskServiceChoice
    \/ AskLoopDomain
    \/ CreateIngressStep
    \/ Congrats
    \/ Configured

\* termination does not depend on the profile or on the values typed for
\* the credentials, which are what the "setup" behaviours vary
LiveInit == Init /\ focus # "setup"

LiveSpec == LiveInit /\ [][Next]_vars /\ WF_vars(WizardStep)

----------------------------------------------------------------------------
(* Reading the histories *)

InRun == pc # "idle"

SetMsg     == "Would you like to set ngrok credentials?"
ReplaceMsg == "Would you like to replace ngrok credentials?"
ConfigureIngressMsg ==
    "Would you like to configure ingress for existing services in your minikube cluster?"
SuccessMsgs == {"Congrats, you have configured ingress with ngrok",
                "ngrok was successfully configured"}
ErrorMsgs == {"Error checking namespace", "Error creating namespace",
              "Error checking secret", "ERROR creating secret",
              "Error reading module set file", "Error listing services",
              "Service not found", "Error converting port to int",
              "Error creating ingress"}

Called(name)   == \E i \in 1..Len(trace) : trace[i].kind = "call" /\ trace[i].name = name
CalledOk(name) == \E i \in 1..Len(trace) :
                      trace[i].kind = "call" /\ trace[i].name = name /\ trace[i].ok
Failed(name)   == \E i \in 1..Len(trace) :
                      trace[i].kind = "call" /\ trace[i].name = name /\ ~trace[i].ok
Prompted(name) == \E i \in 1..Len(trace) : trace[i].kind = "prompt" /\ trace[i].name = name
Answered(name, yes) == \E i \in 1..Len(trace) :
                      trace[i].kind = "prompt" /\ trace[i].name = name /\ trace[i].ret = yes
Printed(name)  == \E i \in 1..Len(trace) : trace[i].kind = "out" /\ trace[i].name = name

\* the values typed at the free-text prompt of one site, in order
AnswersAt(site) ==
    LET picked == SelectSeq(answers, LAMBDA a : a.site = site)
    IN  [i \in 1..Len(picked) |-> picked[i].value]

\* the credential secrets a set of secrets holds for a profile
CredentialsIn(set, p) ==
    {s \in set : s.profile = p /\ s.namespace = NgrokNamespace /\ s.name = NgrokSecretName}

GateCalled == gate.fn # "none"
GateUnchangedCluster ==
    gate.before = [namespaces |-> namespaces, secrets |-> secrets, ingresses |-> ingresses]
\* the gate said "disallowed": the skip signal of the validator, the
\* "please run configure" error of the enable callback
GateDisallowed == gate.err \in {ErrSkipThisAddon, "please run configure"}

----------------------------------------------------------------------------
(* C1: for every cluster state the gate (ngrokValidation, enableAddonNgrok  *)
(* through enableOrDisableNgrok with a true value) reports "disallowed" if  *)
(* and only if the credential secret is absent from the ngrok namespace of  *)
(* the given profile, and a gate call leaves the cluster as it was.  This   *)
(* is the claim as it stands: it is violated when the existence check       *)
(* itself fails.                                                            *)
C1_Original ==
    (GateCalled /\ gate.called = 1) =>
        /\ GateDisallowed <=> ~gate.present
        /\ GateUnchangedCluster

(* C1, amended: whenever the existence check succeeds, the gate reports     *)
(* "disallowed" if and only if the secret is absent from the ngrok          *)
(* namespace of the given profile; when the check fails it reports neither  *)
(* "allow" nor "disallowed" but the check's error; and no gate call changes *)
(* the cluster.                                                             *)
C1_GateCorrect ==
    (GateCalled /\ gate.called = 1) =>
        /\ ~gate.checkErr => (GateDisallowed <=> ~gate.present)
        /\ ~gate.checkErr => (gate.err = Nil <=> gate.present)
        /\ gate.checkErr => gate.err = "check secret exists"
        /\ GateUnchangedCluster

C1_Witness ==
    /\ gate.fn = "enableOrDisableNgrok"
    /\ gate.called = 1
    /\ gate.profile = "p2"
    /\ gate.present
    /\ gate.err = Nil
    /\ CredentialsIn(secrets, "minikube") = {}

(* C2: ngrokValidation has exactly three outcomes: nil when the secret      *)
(* exists, ErrSkipThisAddon with the remediation message when it is absent, *)
(* and a hard error that is not the skip signal when the existence check    *)
(* fails; a missing secret never gives the hard error, a failed check never *)
(* gives skip.                                                              *)
C2_ThreeOutcomes ==
    gate.fn = "ngrokValidation" =>
        /\ gate.called = 1
        /\ gate.err \in {Nil, ErrSkipThisAddon, "check secret exists"}
        /\ gate.checkErr =>
              gate.err = "check secret exists" /\ gate.msg = NoMsg
        /\ (~gate.checkErr /\ gate.present) =>
              gate.err = Nil /\ gate.msg = NoMsg
        /\ (~gate.checkErr /\ ~gate.present) =>
              /\ gate.err = ErrSkipThisAddon
              /\ gate.msg.text = "Please run minikube addons configure ngrok"
              /\ gate.msg.tipProfileArg =
                    IF gate.profile = "minikube" THEN <<>> ELSE <<" -p ", gate.profile>>

C2_Witness ==
    /\ gate.fn = "ngrokValidation"
    /\ gate.profile = "p2"
    /\ gate.err = ErrSkipThisAddon
    /\ gate.msg # NoMsg
    /\ CredentialsIn(secrets, "minikube") # {}

(* C3: every entry point that runs the gate, enableOrDisableNgrok with      *)
(* "true" included, returns an error only when the existence check cannot   *)
(* be performed; when the check succeeds and the secret is absent the       *)
(* result is "not allowed" with no error (the skip signal).                 *)
C3_ErrorOnlyOnFailedCheck ==
    (GateCalled /\ gate.called = 1 /\ ~gate.checkErr) =>
        gate.err \in {Nil, ErrSkipThisAddon}

(* C4: enableOrDisableNgrok parses its value as a boolean: a value that     *)
(* parses to false gives success, no facade call and an unchanged cluster   *)
(* (the credential secret stays); a value that does not parse gives an      *)
(* error and no facade call.                                                *)
C4_DisableIsNoOp ==
    gate.fn = "enableOrDisableNgrok" =>
        /\ gate.val \in FalseStrings =>
              /\ gate.err = Nil
              /\ gate.called = 0
              /\ GateUnchangedCluster
        /\ gate.val \notin (TrueStrings \cup FalseStrings) =>
              /\ gate.err = "parsing bool"
              /\ gate.called = 0
              /\ GateUnchangedCluster

C4_Witness ==
    /\ gate.fn = "enableOrDisableNgrok"
    /\ gate.val = "F"
    /\ gate.err = Nil
    /\ SecretPresent(gate.profile, NgrokNamespace, NgrokSecretName)

FirstOf(seq) == seq[1]
LastEvent == trace[Len(trace)]
NgrokNs(p) == <<p, NgrokNamespace>>
DomainChoiceMsg == "single or multiple domain?"
PolicyModuleMsg == "Would you like to create a policy module?"
SetupCalls == {"NamespaceExists", "CreateNamespace", "SecretExists", "CreateSecret"}

\* the credential secret the wizard writes for the values typed in this run
TypedSecret ==
    [profile |-> profile, namespace |-> NgrokNamespace, name |-> NgrokSecretName,
     data |-> [AUTHTOKEN |-> FirstOf(AnswersAt("authtoken")),
               API_KEY |-> FirstOf(AnswersAt("apikey"))],
     labels |-> NgrokLabels]

(* C5: the namespace-ensure step is idempotent: CreateNamespace is called   *)
(* only when NamespaceExists returned false; a run that finds the namespace *)
(* left by an earlier run (no facade failure) makes no CreateNamespace call *)
(* and reports no namespace error; and the namespace exists after every     *)
(* ensure step that met no facade failure.                                  *)
C5_NamespaceIdempotent ==
    InRun =>
        /\ \A i \in 1..Len(trace) :
              (trace[i].kind = "call" /\ trace[i].name = "CreateNamespace") =>
                  \E j \in 1..(i - 1) :
                      /\ trace[j].kind = "call"
                      /\ trace[j].name = "NamespaceExists"
                      /\ ~trace[j].ret
        /\ (/\ CalledOk("NamespaceExists")
            /\ pc # "CreateNamespace"
            /\ ~Failed("CreateNamespace")) => NgrokNs(profile) \in namespaces
        /\ (NgrokNs(profile) \in atStart.namespaces /\ CalledOk("NamespaceExists")) =>
              /\ ~Called("CreateNamespace")
              /\ ~Printed("Error checking namespace")
              /\ ~Printed("Error creating namespace")
              /\ NgrokNs(profile) \in namespaces

C5_Witness ==
    /\ runs = 2
    /\ pc = "done"
    /\ NgrokNs(profile) \in atStart.namespaces
    /\ CalledOk("NamespaceExists")
    /\ ~Called("CreateNamespace")

(* C6: credential reconciliation is a full replacement: after a run in      *)
(* which the operator accepted and typed (a, b) and a later run in which    *)
(* the operator accepts and types (c, d), the stored secret's data is       *)
(* exactly {AUTHTOKEN: c, API_KEY: d}.  This is the claim as it stands: it  *)
(* is violated when CreateSecret fails in the later run.                    *)
C6_Original ==
    (/\ InRun
     /\ CredentialsIn(atStart.secrets, profile) # {}
     /\ Called("CreateSecret")) => CredentialsIn(secrets, profile) = {TypedSecret}

(* C6, amended: after a run in which the operator accepted, typed (c, d)    *)
(* and CreateSecret succeeded, the stored secret is exactly {AUTHTOKEN: c,  *)
(* API_KEY: d}, whatever an earlier run stored; until CreateSecret has      *)
(* succeeded in a run the secret is exactly what the run found; so the      *)
(* secret never holds a mix of old and new values.                          *)
C6_FullReplacement ==
    InRun =>
        /\ CalledOk("CreateSecret") => CredentialsIn(secrets, profile) = {TypedSecret}
        /\ ~CalledOk("CreateSecret") =>
              CredentialsIn(secrets, profile) = CredentialsIn(atStart.secrets, profile)

C6_Witness ==
    /\ pc = "done"
    /\ CalledOk("CreateSecret")
    /\ \E old \in CredentialsIn(atStart.secrets, profile) :
          old.data = [AUTHTOKEN |-> "a", API_KEY |-> "b"]
    /\ \E new \in CredentialsIn(secrets, profile) :
          new.data = [AUTHTOKEN |-> "c", API_KEY |-> "d"]

(* C7: when the operator declines the set/replace-credentials prompt, the   *)
(* run makes no CreateSecret call and every secret is as the run found it   *)
(* (an existing one keeps its contents, an absent one stays absent); the    *)
(* prompt says "replace" exactly when the existence check returned true.    *)
C7_DeclineLeavesSecret ==
    InRun =>
        /\ (Answered(SetMsg, FALSE) \/ Answered(ReplaceMsg, FALSE)) =>
              /\ ~Called("CreateSecret")
              /\ ~Prompted("-- Enter ngrok authtoken: ")
              /\ ~Prompted("-- Enter ngrok apikey: ")
              /\ secrets = atStart.secrets
        /\ \A i \in 1..Len(trace) :
              (trace[i].kind = "prompt" /\ trace[i].name \in {SetMsg, ReplaceMsg}) =>
                  \E j \in 1..(i - 1) :
                      /\ trace[j].kind = "call"
                      /\ trace[j].name = "SecretExists"
                      /\ (trace[i].name = ReplaceMsg) <=> trace[j].ret

C7_Witness ==
    /\ pc = "done"
    /\ Answered(ReplaceMsg, FALSE)
    /\ CredentialsIn(secrets, profile) # {}
    /\ CalledOk("SecretExists")

(* C8: a facade failure during EnsureNamespace (NamespaceExists,            *)
(* CreateNamespace) or ReconcileCredentials (SecretExists, CreateSecret) is *)
(* fatal to the run: after it the wizard issues no prompt, makes no facade  *)
(* call and prints no success message (only the report of the failure).     *)
C8_SetupFailureIsFatal ==
    \A i \in 1..Len(trace) :
        (trace[i].kind = "call" /\ trace[i].name \in SetupCalls /\ ~trace[i].ok) =>
            \A j \in (i + 1)..Len(trace) :
                trace[j].kind = "out" /\ trace[j].name \in ErrorMsgs

(* C9: when the operator declines "configure ingress for existing           *)
(* services" the run goes straight to its end with a success notice: no     *)
(* domain-strategy prompt, no policy-module prompt, no ListServices and no  *)
(* CreateIngress call happen in the run and nothing after the answer        *)
(* reports an error.                                                        *)
C9_DeclineGoesToEnd ==
    (InRun /\ Answered(ConfigureIngressMsg, FALSE)) =>
        /\ pc \in {"Configured", "done"}
        /\ ~Prompted(DomainChoiceMsg)
        /\ ~Prompted(PolicyModuleMsg)
        /\ ~Prompted("What domain would you like to use?")
        /\ ~Prompted("What service would you like to add ingress for?")
        /\ ~Called("ListServices")
        /\ ~Called("CreateIngress")
        /\ requests = <<>>
        /\ ingresses = atStart.ingresses
        /\ \A i \in 1..Len(trace) :
              (trace[i].kind = "prompt" /\ trace[i].name = ConfigureIngressMsg) =>
                  \A j \in (i + 1)..Len(trace) :
                      trace[j] = Out("ngrok was successfully configured")
        /\ pc = "done" => LastEvent = Out("ngrok was successfully configured")

C9_Witness ==
    /\ pc = "done"
    /\ Answered(ConfigureIngressMsg, FALSE)
    /\ CalledOk("CreateSecret")

(* C10: the domain strategy is chosen once per run and never changes.       *)
(* Under "single" the one domain typed up front is carried by every         *)
(* CreateIngress request of the run and no domain is asked for inside the   *)
(* mapping loop; under "multiple" no domain is asked for up front and the   *)
(* i-th request carries the i-th domain typed inside the loop.              *)
C10_DomainStrategy ==
    InRun =>
        /\ Cardinality({i \in 1..Len(trace) :
                           trace[i].kind = "prompt" /\ trace[i].name = DomainChoiceMsg}) <= 1
        /\ \A i \in 1..Len(trace) :
              (trace[i].kind = "prompt" /\ trace[i].name = DomainChoiceMsg) =>
                  singleDomain = trace[i].ret
        /\ ~Prompted(DomainChoiceMsg) => (~singleDomain /\ requests = <<>>)
        /\ singleDomain =>
              /\ Len(AnswersAt("domain")) = (IF pc = "AskSingleDomain" THEN 0 ELSE 1)
              /\ AnswersAt("loopDomain") = <<>>
              /\ ~Prompted("What domain would you like to use? (loop)")
              /\ \A i \in 1..Len(requests) : requests[i].domain = FirstOf(AnswersAt("domain"))
        /\ ~singleDomain =>
              /\ AnswersAt("domain") = <<>>
              /\ ~Prompted("What domain would you like to use?")
              /\ Len(requests) <= Len(AnswersAt("loopDomain"))
              /\ Len(AnswersAt("loopDomain")) <= Len(requests) + 1
              /\ \A i \in 1..Len(requests) : requests[i].domain = AnswersAt("loopDomain")[i]

C10_Witness ==
    /\ pc = "done"
    /\ ~singleDomain
    /\ Len(requests) = 2
    /\ requests[1].service # requests[2].service
    /\ requests[1].domain = "foo.ngrok.app"
    /\ requests[2].domain = "b.ngrok.app"

----------------------------------------------------------------------------
(* Reading the mapping loop from the trace *)

SelMsg        == "What service would you like to add ingress for?"
LoopDomainMsg == "What domain would you like to use? (loop)"
CongratsMsg   == "Congrats, you have configured ingress with ngrok"
PolicyPathMsg == "Give path to policy module file"
CreateIngressMsg == "Would you like to create ingress to existing services?"

IsCall(i, name)   == trace[i].kind = "call" /\ trace[i].name = name
IsPrompt(i, name) == trace[i].kind = "prompt" /\ trace[i].name = name
IsOut(i, name)    == trace[i].kind = "out" /\ trace[i].name = name

\* the positions of the selection prompts of the run, and the last of them
SelIdx  == {i \in 1..Len(trace) : IsPrompt(i, SelMsg)}
LastSel == CHOOSE i \in SelIdx : \A j \in SelIdx : j <= i

\* what became of the selection typed at position i of the trace
Rejected(i) == i < Len(trace) /\ IsOut(i + 1, "Service not found")
Sentinel(i) == \/ i < Len(trace) /\ IsOut(i + 1, CongratsMsg)
               \/ i = Len(trace) /\ pc = "Congrats"
Accepted(i) == ~Rejected(i) /\ ~Sentinel(i)

\* the items the ListServices call of the run returned
Listed ==
    LET k == CHOOSE i \in 1..Len(trace) : IsCall(i, "ListServices") /\ trace[i].ok
    IN  trace[k].ret

\* the display strings of the (service, port) entries of a list
TriplesOf(items) ==
    UNION { { items[i].Namespace \o <<":">> \o items[i].Name \o <<":">> \o Itoa(items[i].Ports[j])
              : j \in 1..Len(items[i].Ports) } : i \in 1..Len(items) }

\* the CreateIngress calls of the run, in order: the k-th belongs to requests[k]
IngressCalls == SelectSeq(trace, LAMBDA e : e.kind = "call" /\ e.name = "CreateIngress")

SameKey(g, h) == g.profile = h.profile /\ g.namespace = h.namespace /\ g.name = h.name

(* C11: a selection is accepted only when the whole string equals           *)
(* namespace:name:port of an entry ListServices returned in this run; any   *)
(* other selection (right namespace and name with a port that is not        *)
(* listed, or fewer segments) is reported as not found, is followed by no   *)
(* domain prompt and no CreateIngress call, and the loop prompts again.     *)
C11_ExactMatch ==
    (InRun /\ SelIdx # {}) =>
        /\ svcItems = Listed
        /\ Accepted(LastSel) => serviceChoice \in TriplesOf(Listed)
        /\ Rejected(LastSel) =>
              /\ serviceChoice \notin TriplesOf(Listed)
              /\ pc = "AskServiceChoice"
              /\ LastSel + 1 = Len(trace)
        /\ \A i \in SelIdx :
              Rejected(i) => (i + 2 <= Len(trace) => IsPrompt(i + 2, SelMsg))
        /\ \A i \in 1..Len(trace) :
              /\ IsPrompt(i, LoopDomainMsg) => (IsPrompt(i - 1, SelMsg) /\ Accepted(i - 1))
              /\ IsCall(i, "CreateIngress") =>
                    \/ IsPrompt(i - 1, SelMsg) /\ Accepted(i - 1)
                    \/ IsPrompt(i - 1, LoopDomainMsg)

C11_Witness ==
    /\ pc = "AskServiceChoice"
    /\ LastEvent = Out("Service not found")
    /\ serviceChoice = <<"d", ":", "w", ":", "9">>
    /\ \E i \in 1..Len(svcItems) :
          svcItems[i].Namespace = <<"d">> /\ svcItems[i].Name = <<"w">>
    /\ Len(requests) = 1

(* C12: typing the sentinel "none" at the selection prompt ends the mapping *)
(* loop: that iteration has no domain prompt and no CreateIngress call, no  *)
(* selection prompt follows, and every ingress an earlier iteration created *)
(* is still there.                                                          *)
C12_SentinelEndsLoop ==
    (InRun /\ serviceChoice = NoneStr) =>
        /\ pc \in {"Congrats", "Configured", "done"}
        /\ SelIdx # {}
        /\ Sentinel(LastSel)
        /\ \A j \in (LastSel + 1)..Len(trace) :
              trace[j].kind = "out" /\ trace[j].name \in SuccessMsgs
        /\ Len(IngressCalls) = Len(requests)
        /\ \A k \in 1..Len(requests) :
              (/\ IngressCalls[k].ok
               /\ \A m \in (k + 1)..Len(requests) :
                     ~(IngressCalls[m].ok /\ SameKey(requests[m], requests[k])))
                  => requests[k] \in ingresses

C12_Witness ==
    /\ pc = "done"
    /\ serviceChoice = NoneStr
    /\ Len(requests) = 1
    /\ requests[1] \in ingresses
    /\ requests[1] \notin atStart.ingresses

CountOut(name) == Cardinality({i \in 1..Len(trace) : IsOut(i, name)})
CountCall(name) == Cardinality({i \in 1..Len(trace) : IsCall(i, name)})
CountPrompt(name) == Cardinality({i \in 1..Len(trace) : IsPrompt(i, name)})

(* C13: the terminal success message is printed exactly once per run and,   *)
(* when the run entered the mapping step, only after the loop was left by   *)
(* the sentinel: not after each iteration, and not when the service listing *)
(* failed or the loop was left on an error.  Stated for the runs whose      *)
(* setup calls all succeeded.                                               *)
C13_SuccessOnlyAfterSentinel ==
    (InRun /\ \A n \in SetupCalls : ~Failed(n)) =>
        /\ \A m \in SuccessMsgs : CountOut(m) <= 1
        /\ pc = "done" => CountOut("ngrok was successfully configured") = 1
        /\ (Printed(CongratsMsg) /\ Called("ListServices")) =>
              /\ CalledOk("ListServices")
              /\ serviceChoice = NoneStr
              /\ ~Printed("Error converting port to int")

(* C14: the policy-module step prompts for a path until "none" is typed; a  *)
(* path that cannot be read prints an error and the loop prompts again; the *)
(* run goes on to the create-ingress prompt and the mapping loop; the step  *)
(* makes no facade call.                                                    *)
C14_PolicyLoop ==
    LET paths == AnswersAt("policy")
        n     == Len(paths)
    IN  InRun =>
        /\ CountPrompt(PolicyPathMsg) = n
        /\ n > 0 => Answered(PolicyModuleMsg, TRUE)
        /\ \A k \in 1..(n - 1) : paths[k] # "none"
        /\ (n > 0 /\ pc = "PolicyLoop") => paths[n] # "none"
        /\ (n > 0 /\ pc # "PolicyLoop") => paths[n] = "none"
        /\ (Answered(PolicyModuleMsg, TRUE) /\ pc # "PolicyLoop") => n > 0
        /\ CountOut("Error reading module set file")
              = Cardinality({k \in 1..n : paths[k] # "none" /\ paths[k] \notin ReadableFiles})
        /\ \A i \in 1..Len(trace) :
              /\ IsOut(i, "Error reading module set file") =>
                    /\ IsPrompt(i - 1, PolicyPathMsg)
                    /\ i < Len(trace) => IsPrompt(i + 1, PolicyPathMsg)
                    /\ i = Len(trace) => pc = "PolicyLoop"
              /\ IsPrompt(i, PolicyPathMsg) =>
                    /\ \/ IsPrompt(i - 1, PolicyModuleMsg)
                       \/ IsPrompt(i - 1, PolicyPathMsg)
                       \/ IsOut(i - 1, "Error reading module set file")
                    /\ i < Len(trace) =>
                          \/ IsPrompt(i + 1, PolicyPathMsg)
                          \/ IsOut(i + 1, "Error reading module set file")
                          \/ IsPrompt(i + 1, CreateIngressMsg)
        /\ (Printed("Error reading module set file") /\ pc = "done") =>
              Prompted(CreateIngressMsg)

C14_Witness ==
    /\ pc = "done"
    /\ AnswersAt("policy") = <<"missing.json", "none">>
    /\ Printed("Error reading module set file")
    /\ Answered(CreateIngressMsg, TRUE)
    /\ CalledOk("ListServices")
    /\ Prompted(SelMsg)

(* C15: a failed iteration of the mapping loop never ends the loop: after   *)
(* an unknown service, a selection with fewer than three segments or a port *)
(* segment that is not an integer, an error is printed, no CreateIngress    *)
(* call is made and the next selection prompt follows; for every listed     *)
(* service, also one with a colon in its namespace or name.                 *)
C15_FailedIterationContinues ==
    InRun =>
        /\ pc # "panic"
        /\ \A i \in 1..Len(trace) :
              (IsOut(i, "Service not found") \/ IsOut(i, "Error converting port to int")) =>
                  /\ ~IsCall(i - 1, "CreateIngress")
                  /\ i = Len(trace) => pc = "AskServiceChoice"
                  /\ i < Len(trace) => IsPrompt(i + 1, SelMsg)

RECURSIVE AppliedIngresses(_)
\* the ingresses of the cluster after the first k CreateIngress calls of the run
AppliedIngresses(k) ==
    IF k = 0 THEN atStart.ingresses
    ELSE IF IngressCalls[k].ok
         THEN {g \in AppliedIngresses(k - 1) : ~SameKey(g, requests[k])} \cup {requests[k]}
         ELSE AppliedIngresses(k - 1)

(* C16: when CreateIngress fails for an accepted selection the failure is   *)
(* printed, the loop goes on to the next selection prompt, the call is not  *)
(* repeated, and the ingresses the earlier iterations created are neither   *)
(* deleted nor changed.                                                     *)
C16_CreateFailureIsLocal ==
    InRun =>
        /\ Len(IngressCalls) = Len(requests)
        /\ ingresses = AppliedIngresses(Len(requests))
        /\ CountCall("CreateIngress") <= Cardinality({i \in SelIdx : Accepted(i)})
        /\ \A i \in 1..Len(trace) :
              /\ (IsCall(i, "CreateIngress") /\ ~trace[i].ok) =>
                    i < Len(trace) /\ IsOut(i + 1, "Error creating ingress")
              /\ IsOut(i, "Error creating ingress") =>
                    /\ IsCall(i - 1, "CreateIngress") /\ ~trace[i - 1].ok
                    /\ i = Len(trace) => pc = "AskServiceChoice"
                    /\ i < Len(trace) => IsPrompt(i + 1, SelMsg)

C16_Witness ==
    /\ pc = "done"
    /\ Len(requests) = 2
    /\ IngressCalls[1].ok
    /\ ~IngressCalls[2].ok
    /\ ~SameKey(requests[1], requests[2])
    /\ requests[1] \in ingresses
    /\ requests[2] \notin ingresses
    /\ Sentinel(LastSel)

\* the request the wizard is to submit for entry (i, j) of the list
RequestFor(i, j, dom) ==
    [profile |-> profile, namespace |-> Listed[i].Namespace,
     name |-> <<IngressPrefix>> \o Listed[i].Name, domain |-> dom,
     service |-> Listed[i].Name, port |-> Listed[i].Ports[j], class |-> IngressClass]

(* C17: for every accepted selection that matches the listed entry          *)
(* (namespace n, service s, port p) exactly one CreateIngress request is    *)
(* submitted, and it is (n, "ngrok-ingress-" + s, the resolved domain, s,   *)
(* p, "ngrok"), for every namespace and service name the cluster returns.   *)
C17_RequestOfMatchedEntry ==
    InRun =>
        /\ Len(IngressCalls) = Len(requests)
        /\ \A k \in 1..Len(requests) :
              \E i \in 1..Len(Listed) : \E j \in 1..Len(Listed[i].Ports) :
                  requests[k] = RequestFor(i, j, requests[k].domain)
        /\ (requests # <<>> /\ (LastEvent.name \in {"CreateIngress", "Error creating ingress"})) =>
              \E i \in 1..Len(Listed) : \E j \in 1..Len(Listed[i].Ports) :
                  /\ ServiceTriple(Listed[i], Listed[i].Ports[j]) = serviceChoice
                  /\ requests[Len(requests)] = RequestFor(i, j, domain)

(* C18: requests are not deduplicated: every accepted selection submits its *)
(* own CreateIngress request, also when the same service is selected twice  *)
(* (two requests with the same namespace and generated name); the number of *)
(* domain prompts inside the loop is the number of accepted selections      *)
(* under "multiple" and zero under "single".                                *)
C18_NoDeduplication ==
    LET accepted == Cardinality({i \in SelIdx : Accepted(i)})
        atDomain == IF pc = "AskLoopDomain" THEN 1 ELSE 0
        atCreate == IF pc \in {"AskLoopDomain", "CreateIngress"} THEN 1 ELSE 0
    IN  InRun =>
        /\ CountPrompt(LoopDomainMsg) = (IF singleDomain THEN 0 ELSE accepted - atDomain)
        /\ Len(AnswersAt("loopDomain")) = CountPrompt(LoopDomainMsg)
        /\ CountCall("CreateIngress") = Len(requests)
        /\ Len(requests) = accepted - atCreate - CountOut("Error converting port to int")

C18_Witness ==
    /\ pc = "done"
    /\ ~singleDomain
    /\ Len(requests) = 2
    /\ SameKey(requests[1], requests[2])
    /\ requests[1].service = requests[2].service
    /\ requests[1].port = requests[2].port
    /\ requests[1].domain # requests[2].domain
    /\ CountPrompt(LoopDomainMsg) = 2

RECURSIVE TripleSeq(_)
\* the display strings of the entries of a list, in the order of the list
TripleSeq(items) ==
    IF items = <<>> THEN <<>>
    ELSE [j \in 1..Len(Head(items).Ports) |-> ServiceTriple(Head(items), Head(items).Ports[j])]
             \o TripleSeq(Tail(items))

(* C19: ListServices is called at most once per run, before the first       *)
(* selection prompt; every selection of the run is matched against what     *)
(* that call returned, whatever services the cluster has gained or lost     *)
(* since; and the box shows the entries in the order returned, one          *)
(* namespace:name:port line per (service, port).                            *)
C19_OneSnapshot ==
    InRun =>
        /\ CountCall("ListServices") <= 1
        /\ \A i \in SelIdx : \E j \in 1..(i - 1) : IsCall(j, "ListServices") /\ trace[j].ok
        /\ \A j \in 1..Len(trace) :
              (IsCall(j, "ListServices") /\ trace[j].ok) =>
                  /\ j < Len(trace) /\ IsOut(j + 1, "Services box")
                  /\ Split(serviceString, "\n") = TripleSeq(trace[j].ret) \o << <<>> >>
        /\ SelIdx # {} =>
              /\ Accepted(LastSel) => serviceChoice \in TriplesOf(Listed)
              /\ Rejected(LastSel) => serviceChoice \notin TriplesOf(Listed)

C19_Witness ==
    /\ pc = "CreateIngress"
    /\ CalledOk("ListServices")
    /\ services[profile] # Listed
    /\ Len(Listed[1].Ports) = 2
    /\ serviceChoice \in TriplesOf(Listed)
    /\ serviceChoice \notin TriplesOf(services[profile])

Rank(name) ==
    CASE name = "NamespaceExists" -> 1
      [] name = "CreateNamespace" -> 2
      [] name = "SecretExists"    -> 3
      [] name = "CreateSecret"    -> 4
      [] name = "ListServices"    -> 5
      [] name = "CreateIngress"   -> 6

(* C20: the facade calls of a run come in the order NamespaceExists,        *)
(* CreateNamespace (optional), SecretExists, CreateSecret (optional),       *)
(* ListServices (optional), CreateIngress (any number): no call of an       *)
(* earlier step follows a call of a later step, only CreateIngress is       *)
(* called more than once, and NamespaceExists and SecretExists are each     *)
(* called exactly once.                                                     *)
C20_CallOrder ==
    InRun =>
        /\ \A i \in 1..Len(trace) : \A j \in (i + 1)..Len(trace) :
              (trace[i].kind = "call" /\ trace[j].kind = "call") =>
                  /\ Rank(trace[i].name) <= Rank(trace[j].name)
                  /\ Rank(trace[i].name) = Rank(trace[j].name) =>
                        trace[i].name = "CreateIngress"
        /\ CountCall("NamespaceExists") = (IF pc = "CheckNamespace" THEN 0 ELSE 1)
        /\ CountCall("SecretExists") =
              (IF pc \in {"CheckNamespace", "CreateNamespace", "CheckSecret"} THEN 0 ELSE 1)
        /\ Len(trace) > 0 => IsCall(1, "NamespaceExists")

C20_Witness ==
    /\ pc = "done"
    /\ \A n \in {"NamespaceExists", "CreateNamespace", "SecretExists",
                 "CreateSecret", "ListServices"} : CountCall(n) = 1
    /\ CountCall("CreateIngress") = 2

(* C21: the wizard and the gate agree on where the credentials are.  After  *)
(* a run in which the operator accepted the credentials prompt and every    *)
(* facade call succeeded, a following gate call on the same profile returns *)
(* "allow"; after a run that found no secret and in which the operator      *)
(* declined, a following gate call returns "disallowed".  This is the claim *)
(* as it stands (the gate's own check read as one of the facade calls of    *)
(* its first half): it is violated when the gate's existence check fails    *)
(* after a declined run.                                                    *)
C21_Original ==
    (GateCalled /\ gate.called = 1 /\ lastRun.profile = gate.profile) =>
        /\ (lastRun.accepted /\ lastRun.allOk /\ ~gate.checkErr) => gate.err = Nil
        /\ (lastRun.absentAtStart /\ ~lastRun.accepted) => GateDisallowed

(* C21, amended: whenever the gate's own existence check succeeds, a gate   *)
(* call that follows a run on the same profile returns "allow" if the       *)
(* operator accepted the credentials prompt and every facade call of the    *)
(* run succeeded, and "disallowed" if the run found no secret and the       *)
(* operator declined; when the gate's check fails it returns the check's    *)
(* error.                                                                   *)
C21_WizardGateAgree ==
    (GateCalled /\ gate.called = 1 /\ lastRun.profile = gate.profile) =>
        /\ (lastRun.accepted /\ lastRun.allOk /\ ~gate.checkErr) => gate.err = Nil
        /\ (lastRun.absentAtStart /\ ~lastRun.accepted /\ ~gate.checkErr) => GateDisallowed
        /\ gate.checkErr => gate.err = "check secret exists"

C21_Witness ==
    /\ gate.fn = "enableOrDisableNgrok"
    /\ gate.called = 1
    /\ gate.profile = "p2"
    /\ lastRun.profile = "p2"
    /\ lastRun.accepted
    /\ lastRun.allOk
    /\ lastRun.absentAtStart
    /\ gate.err = Nil

(* C22: a CreateIngress call occurs in a run only after the operator        *)
(* answered yes to "configure ingress for existing services" and yes to     *)
(* "create ingress to existing services", ListServices returned             *)
(* successfully, and the selection equals a listed triple.  If ListServices *)
(* fails the run shows no selection prompt and makes no CreateIngress call. *)
C22_IngressOnlyOnRequest ==
    InRun =>
        /\ \A i \in 1..Len(trace) :
              (IsCall(i, "CreateIngress") \/ IsPrompt(i, SelMsg)) =>
                  /\ \E j \in 1..(i - 1) : trace[j] = Prompt(ConfigureIngressMsg, TRUE)
                  /\ \E j \in 1..(i - 1) : trace[j] = Prompt(CreateIngressMsg, TRUE)
                  /\ \E j \in 1..(i - 1) : IsCall(j, "ListServices") /\ trace[j].ok
        /\ \A i \in 1..Len(trace) :
              IsCall(i, "CreateIngress") =>
                  \E j \in 1..(i - 1) :
                      /\ IsPrompt(j, SelMsg) /\ Accepted(j)
                      /\ \A m \in (j + 1)..(i - 1) : IsPrompt(m, LoopDomainMsg)
        /\ pc \in {"AskLoopDomain", "CreateIngress"} => serviceChoice \in TriplesOf(Listed)
        /\ (Answered(ConfigureIngressMsg, FALSE) \/ Answered(CreateIngressMsg, FALSE)) =>
              /\ ~Called("ListServices")
              /\ SelIdx = {}
              /\ requests = <<>>
        /\ Failed("ListServices") =>
              /\ SelIdx = {}
              /\ ~Called("CreateIngress")
              /\ requests = <<>>
              /\ ingresses = atStart.ingresses

C22_Witness ==
    /\ pc = "done"
    /\ Answered(ConfigureIngressMsg, TRUE)
    /\ Answered(CreateIngressMsg, TRUE)
    /\ CalledOk("ListServices")
    /\ CalledOk("CreateIngress")
    /\ requests[1] \in ingresses
    /\ requests[1] \notin atStart.ingresses

ObjectKeys(set) == {<<x.profile, x.namespace, x.name>> : x \in set}

(* C23: no operation deletes cluster objects: over any sequence of wizard   *)
(* runs, gate calls and EnableOrDisable calls (true or false) the set of    *)
(* existing namespaces and the set of existing ingresses never shrink and   *)
(* the credential secret, once it exists, keeps existing; hence once the    *)
(* gate has returned "allow" for a profile, the secret of that profile is   *)
(* there and every later gate call on it whose existence check succeeds     *)
(* returns "allow".                                                         *)
C23_NothingDeleted ==
    /\ [][/\ namespaces \subseteq namespaces'
          /\ ObjectKeys(ingresses) \subseteq ObjectKeys(ingresses')
          /\ ObjectKeys(secrets) \subseteq ObjectKeys(secrets')
          /\ allowed \subseteq allowed'
          /\ (/\ gate' # gate
              /\ gate'.fn \in {"ngrokValidation", "enableOrDisableNgrok"}
              /\ gate'.called = 1
              /\ ~gate'.checkErr
              /\ gate'.profile \in allowed) => gate'.err = Nil]_vars
    /\ [](\A p \in allowed : CredentialsIn(secrets, p) # {})

C23_Witness ==
    /\ gate.fn = "ngrokValidation" /\ gate.called = 1 /\ gate.err = Nil
    /\ gate.profile \in allowed
    /\ runs = MaxRuns
    /\ lastRun.profile = gate.profile
    /\ ~lastRun.absentAtStart
    /\ ~lastRun.allOk

YesNoSites == {"AskSetCredentials", "AskConfigureIngress", "AskPolicyModule", "AskCreateIngress"}
MapLoopPcs == {"AskServiceChoice", "AskLoopDomain", "CreateIngress"}
YesLines   == { <<"y">>, <<"Y", "e", "s", "\n">> }
NoLines    == { <<"n", "o", "\n">>, <<"N">> }

\* a step taken at a yes/no prompt is one pass of AskForYesNoConfirmation
YesNoPass ==
    pc \in YesNoSites =>
        IF lastResponse' \in YesLines \cup NoLines
        THEN /\ pc' # pc
             /\ reprompts' = 0
             /\ Len(trace') = Len(trace) + 1
             /\ trace'[Len(trace')].kind = "prompt"
             /\ trace'[Len(trace')].ret = (lastResponse' \in YesLines)
        ELSE /\ pc' = pc
             /\ trace' = trace
             /\ reprompts' = reprompts + 1

PolicyLoopExit ==
    (pc = "PolicyLoop" /\ pc' # "PolicyLoop") =>
        answers'[Len(answers')] = Answer("policy", "none")

MapLoopExit ==
    (pc \in MapLoopPcs /\ pc' \notin MapLoopPcs) =>
        \/ pc = "AskServiceChoice" /\ serviceChoice' = NoneStr
        \/ pc = "CreateIngress" /\ trace'[Len(trace')] = Out("Error converting port to int")

(* C24: a started wizard run reaches End when the operator eventually gives *)
(* a recognised yes/no answer to each confirmation prompt and eventually    *)
(* enters the sentinel "none" in each loop that was entered, whatever the   *)
(* facade returns; a pass of the yes/no prompt returns only on a recognised *)
(* line (true on a yes line, false on a no line) and prompts again on any   *)
(* other; the policy-module loop is left only on the sentinel, and the      *)
(* mapping loop only on the sentinel or on the port conversion error.       *)
C24_RunTerminates ==
    /\ InRun ~> (pc = "done")
    /\ [](pc # "panic")
    /\ [][YesNoPass]_vars
    /\ [][PolicyLoopExit]_vars
    /\ [][MapLoopExit]_vars

C24_Witness ==
    /\ pc = "done"
    /\ policyIter >= 1
    /\ Printed("Error reading module set file")
    /\ Prompted(SelMsg)
    /\ Answered(CreateIngressMsg, TRUE)

====
